---- MODULE Spec2Model ----
(***************************************************************************)
(* A model of the two virtual HomeKit fans of homebridge-melcloud-home:     *)
(* FanSpeedFan (src/src/fan-speed-fan.ts) exposes the unit's fan speed,     *)
(* SwingFan (src/unnamed/part_000) exposes its vertical vane swing.         *)
(*                                                                         *)
(* JavaScript strings are sequences of one-character strings, so that      *)
(* toLowerCase and parseFloat are computed character by character.         *)
(* Every handler runs to its next await in one step (Node is single        *)
(* threaded); the only await of the writers is the controlDevice call.     *)
(***************************************************************************)
EXTENDS Integers, Sequences, FiniteSets, TLC

VARIABLES
    registered,        \* the accessories the platform constructed for the unit
    fanDevice,         \* FanSpeedFan: this.device.settings, a list of {name, value}
    fanActive,         \* FanSpeedFan: value of the service's Active characteristic
    fanRotationSpeed,  \* FanSpeedFan: value of the service's RotationSpeed characteristic
    fanPc,             \* FanSpeedFan: "idle", or "awaiting" inside setFanSpeed's await
    fanFrame,          \* FanSpeedFan: the suspended write (handler, fanSpeed, settings, command)
    fanEntry,          \* FanSpeedFan: the published values when the suspended write began
    swingDevice,       \* SwingFan: this.device.settings
    swingActive,       \* SwingFan: value of the service's Active characteristic
    swingPc,           \* SwingFan: "idle", or "awaiting" inside setVanePosition's await
    swingFrame,        \* SwingFan: the suspended write
    swingEntry,        \* SwingFan: the published value when the suspended write began
    sameObject,        \* both accessories' this.device is one and the same object
    unit,              \* the settings the remote unit holds; <<>> where it is not followed
    last               \* the step just taken: accessory, handler, argument, result, calls made

fanVars == <<fanDevice, fanActive, fanRotationSpeed, fanPc, fanFrame, fanEntry>>
swingVars == <<swingDevice, swingActive, swingPc, swingFrame, swingEntry>>
vars == <<registered, fanVars, swingVars, sameObject, unit, last>>

----------------------------------------------------------------------------
(* String literals of the source, as character sequences.                  *)

sTrue == <<"T", "r", "u", "e">>
sFalse == <<"F", "a", "l", "s", "e">>
sAuto == <<"A", "u", "t", "o">>
sOne == <<"O", "n", "e">>
sTwo == <<"T", "w", "o">>
sThree == <<"T", "h", "r", "e", "e">>
sFour == <<"F", "o", "u", "r">>
sFive == <<"F", "i", "v", "e">>
sSwing == <<"S", "w", "i", "n", "g">>
s_auto == <<"a", "u", "t", "o">>
s_one == <<"o", "n", "e">>
s_two == <<"t", "w", "o">>
s_three == <<"t", "h", "r", "e", "e">>
s_four == <<"f", "o", "u", "r">>
s_five == <<"f", "i", "v", "e">>
s_six == <<"s", "i", "x">>
s_swing == <<"s", "w", "i", "n", "g">>

\* Characteristic.Active.ACTIVE and Characteristic.Active.INACTIVE
ACTIVE == 1
INACTIVE == 0

\* RotationSpeed props: minValue, maxValue
MinPercentage == 0
MaxPercentage == 100

----------------------------------------------------------------------------
(* String.prototype.toLowerCase, on the ASCII letters.                     *)

UpperToLower ==
    [A |-> "a", B |-> "b", C |-> "c", D |-> "d", E |-> "e", F |-> "f", G |-> "g",
     H |-> "h", I |-> "i", J |-> "j", K |-> "k", L |-> "l", M |-> "m", N |-> "n",
     O |-> "o", P |-> "p", Q |-> "q", R |-> "r", S |-> "s", T |-> "t", U |-> "u",
     V |-> "v", W |-> "w", X |-> "x", Y |-> "y", Z |-> "z"]

toLowerCase(s) ==
    [i \in 1..Len(s) |-> IF s[i] \in DOMAIN UpperToLower THEN UpperToLower[s[i]] ELSE s[i]]

----------------------------------------------------------------------------
(* Number.parseFloat on an optional sign, decimal digits and an optional   *)
(* fraction; the longest such prefix is the number, no such prefix is NaN. *)
(* A number is held in thousandths.                                        *)

DigitValue ==
    [c \in {"0", "1", "2", "3", "4", "5", "6", "7", "8", "9"} |->
        CASE c = "0" -> 0 [] c = "1" -> 1 [] c = "2" -> 2 [] c = "3" -> 3 [] c = "4" -> 4
          [] c = "5" -> 5 [] c = "6" -> 6 [] c = "7" -> 7 [] c = "8" -> 8 [] c = "9" -> 9]

NaN == [nan |-> TRUE, milli |-> 0]

RECURSIVE DigitRun(_, _)
\* how many digits s holds from position i on
DigitRun(s, i) ==
    IF i <= Len(s) /\ s[i] \in DOMAIN DigitValue THEN 1 + DigitRun(s, i + 1) ELSE 0

RECURSIVE DigitsValue(_, _, _)
\* the decimal value of the n digits of s that start at position i
DigitsValue(s, i, n) ==
    IF n = 0 THEN 0 ELSE DigitsValue(s, i, n - 1) * 10 + DigitValue[s[i + n - 1]]

parseFloat(s) ==
    LET signed == Len(s) >= 1 /\ s[1] \in {"-", "+"}
        from == IF signed THEN 2 ELSE 1
        whole == DigitRun(s, from)
        dot == from + whole
        frac == IF dot <= Len(s) /\ s[dot] = "." THEN DigitRun(s, dot + 1) ELSE 0
        kept == IF frac > 3 THEN 3 ELSE frac
        scale == CASE kept = 0 -> 1000 [] kept = 1 -> 100 [] kept = 2 -> 10 [] kept = 3 -> 1
        magnitude == DigitsValue(s, from, whole) * 1000 + DigitsValue(s, dot + 1, kept) * scale
    IN  IF whole = 0 /\ frac = 0
        THEN NaN
        ELSE [nan |-> FALSE,
              milli |-> IF signed /\ s[1] = "-" THEN 0 - magnitude ELSE magnitude]

----------------------------------------------------------------------------
(* FanSpeedFan's static mappers.                                           *)

percentageToFanSpeed_Rounds(percentage) ==
    LET level == (percentage + 10) \div 20
    IN  CASE level = 0 -> sAuto [] level = 1 -> sOne [] level = 2 -> sTwo
          [] level = 3 -> sThree [] level = 4 -> sFour [] OTHER -> sFive

percentageToFanSpeed_StrictBuckets(percentage) ==
    IF percentage = 0 THEN sAuto
    ELSE IF percentage < 20 THEN sOne
    ELSE IF percentage < 40 THEN sTwo
    ELSE IF percentage < 60 THEN sThree
    ELSE IF percentage < 80 THEN sFour
    ELSE sFive

percentageToFanSpeed(percentage) ==
    IF percentage = 0 THEN sAuto
    ELSE IF percentage <= 20 THEN sOne
    ELSE IF percentage <= 40 THEN sTwo
    ELSE IF percentage <= 60 THEN sThree
    ELSE IF percentage <= 80 THEN sFour
    ELSE sFive

fanSpeedToPercentage(fanSpeed) ==
    LET normalizedSpeed == toLowerCase(fanSpeed)
    IN  IF normalizedSpeed = s_auto \/ normalizedSpeed = <<"0">> THEN 0
        ELSE IF normalizedSpeed = s_one \/ normalizedSpeed = <<"1">> THEN 20
        ELSE IF normalizedSpeed = s_two \/ normalizedSpeed = <<"2">> THEN 40
        ELSE IF normalizedSpeed = s_three \/ normalizedSpeed = <<"3">> THEN 60
        ELSE IF normalizedSpeed = s_four \/ normalizedSpeed = <<"4">> THEN 80
        ELSE IF normalizedSpeed = s_five \/ normalizedSpeed = <<"5">> THEN 100
        ELSE 0

----------------------------------------------------------------------------
(* SwingFan.normalizeVane                                                  *)

normalizeVane_CaseSensitive(vane) ==
    LET normalized == vane
    IN  IF normalized = <<"0">> \/ normalized = s_auto THEN s_auto
        ELSE IF normalized = <<"6">> \/ normalized = s_six
                \/ normalized = <<"7">> \/ normalized = s_swing THEN s_swing
        ELSE normalized

normalizeVane(vane) ==
    LET normalized == toLowerCase(vane)
    IN  IF normalized = <<"0">> \/ normalized = s_auto THEN s_auto
        ELSE IF normalized = <<"6">> \/ normalized = s_six
                \/ normalized = <<"7">> \/ normalized = s_swing THEN s_swing
        ELSE normalized

----------------------------------------------------------------------------
(* The settings record: a list of {name, value} entries, and               *)
(* MELCloudAPI.parseSettings, which turns it into an object keyed by name. *)

parseSettings(settings) ==
    [n \in {settings[i].name : i \in DOMAIN settings} |->
        LET i == CHOOSE j \in DOMAIN settings : settings[j].name = n
        IN  settings[i].value]

----------------------------------------------------------------------------
(* The remote unit behind MELCloudAPI.controlDevice: a command that the    *)
(* call carried out replaces every setting of the unit. The unit reports   *)
(* its settings as strings: the power as "True" or "False", the            *)
(* temperature in decimal notation; a temperature that is not a number     *)
(* leaves the unit's temperature as it was.                                *)

DigitChar == <<"0", "1", "2", "3", "4", "5", "6", "7", "8", "9">>

RECURSIVE NaturalToString(_)
NaturalToString(n) ==
    IF n < 10 THEN <<DigitChar[n + 1]>>
    ELSE NaturalToString(n \div 10) \o <<DigitChar[(n % 10) + 1]>>

\* Number.prototype.toString of a number held in thousandths
NumberToString(number) ==
    LET magnitude == IF number.milli < 0 THEN 0 - number.milli ELSE number.milli
        whole == magnitude \div 1000
        frac == magnitude % 1000
        fraction ==
            IF frac = 0 THEN <<>>
            ELSE IF frac % 100 = 0 THEN <<".", DigitChar[(frac \div 100) + 1]>>
            ELSE IF frac % 10 = 0
                 THEN <<".", DigitChar[(frac \div 100) + 1],
                        DigitChar[((frac \div 10) % 10) + 1]>>
            ELSE <<".", DigitChar[(frac \div 100) + 1],
                   DigitChar[((frac \div 10) % 10) + 1], DigitChar[(frac % 10) + 1]>>
    IN  (IF number.milli < 0 THEN <<"-">> ELSE <<>>) \o NaturalToString(whole) \o fraction

\* the unit's settings once it carried out a command
Applied(settings, command) ==
    [i \in DOMAIN settings |->
        [settings[i] EXCEPT !.value =
            CASE settings[i].name = "Power" -> IF command.power THEN sTrue ELSE sFalse
              [] settings[i].name = "OperationMode" -> command.operationMode
              [] settings[i].name = "SetFanSpeed" -> command.setFanSpeed
              [] settings[i].name = "VaneHorizontalDirection" ->
                    command.vaneHorizontalDirection
              [] settings[i].name = "VaneVerticalDirection" ->
                    command.vaneVerticalDirection
              [] settings[i].name = "SetTemperature" ->
                    IF command.setTemperature.nan THEN settings[i].value
                    ELSE NumberToString(command.setTemperature)
              [] OTHER -> settings[i].value]]

None == "none"
Null == "null"
Undefined == "undefined"
SERVICE_COMMUNICATION_FAILURE == "SERVICE_COMMUNICATION_FAILURE"

\* the errors controlDevice rejects with: a transport error, an API error
ETIMEDOUT == "ETIMEDOUT"
Unauthorized == "401 Unauthorized"
Errors == {ETIMEDOUT, Unauthorized}

\* a call the step makes on a collaborator (the API client, the service, the platform)
ControlDeviceCall(command) == [call |-> "controlDevice", command |-> command]
UpdateCharacteristicCall(characteristic, value) ==
    [call |-> "updateCharacteristic", characteristic |-> characteristic, value |-> value]
ScheduleRefreshCall == [call |-> "scheduleRefresh"]
LogErrorCall(error) == [call |-> "log.error", error |-> error]

\* what a step records: the handler that ran and its argument, whether it returned,
\* threw or is suspended at its await, its result, the calls it made in order and,
\* when it ends a write, that write and the state before the step
Step(acc, op, arg, status, ret, thrown, events, ended) ==
    [acc |-> acc, op |-> op, arg |-> arg, status |-> status, ret |-> ret,
     thrown |-> thrown, events |-> events, ended |-> ended]

----------------------------------------------------------------------------
(* FanSpeedFan                                                             *)

\* getActive's return value
FanGetActiveValue(device) ==
    LET settings == parseSettings(device)
        isPowerOn == settings.Power = sTrue
        fanSpeed == settings.SetFanSpeed
        isAuto == fanSpeed = sAuto \/ fanSpeed = <<"0">>
        isActive == isPowerOn /\ ~isAuto
    IN  IF isActive THEN ACTIVE ELSE INACTIVE

\* getRotationSpeed's return value
FanGetRotationSpeedValue(device) ==
    LET settings == parseSettings(device)
        fanSpeed == settings.SetFanSpeed
    IN  fanSpeedToPercentage(fanSpeed)

FanCommand_DefaultsVane(settings, fanSpeed) ==
    [power |-> TRUE,
     operationMode |-> settings.OperationMode,
     setFanSpeed |-> fanSpeed,
     vaneHorizontalDirection |-> settings.VaneHorizontalDirection,
     vaneVerticalDirection |-> sAuto,
     setTemperature |-> parseFloat(settings.SetTemperature),
     temperatureIncrementOverride |-> Null,
     inStandbyMode |-> Null]

FanCommand_KeepsPower(settings, fanSpeed) ==
    [power |-> settings.Power = sTrue,
     operationMode |-> settings.OperationMode,
     setFanSpeed |-> fanSpeed,
     vaneHorizontalDirection |-> settings.VaneHorizontalDirection,
     vaneVerticalDirection |-> settings.VaneVerticalDirection,
     setTemperature |-> parseFloat(settings.SetTemperature),
     temperatureIncrementOverride |-> Null,
     inStandbyMode |-> Null]

\* the command setFanSpeed hands to controlDevice
FanCommand(settings, fanSpeed) ==
    [power |-> TRUE,
     operationMode |-> settings.OperationMode,
     setFanSpeed |-> fanSpeed,
     vaneHorizontalDirection |-> settings.VaneHorizontalDirection,
     vaneVerticalDirection |-> settings.VaneVerticalDirection,
     setTemperature |-> parseFloat(settings.SetTemperature),
     temperatureIncrementOverride |-> Null,
     inStandbyMode |-> Null]

FanUpdatedSettings_KeepsPower(settings, fanSpeed) ==
    [i \in DOMAIN settings |->
        IF settings[i].name = "SetFanSpeed" THEN [settings[i] EXCEPT !.value = fanSpeed]
        ELSE settings[i]]

\* setFanSpeed's "Update cached state": this.device.settings.map(...)
FanUpdatedSettings(settings, fanSpeed) ==
    [i \in DOMAIN settings |->
        IF settings[i].name = "SetFanSpeed" THEN [settings[i] EXCEPT !.value = fanSpeed]
        ELSE IF settings[i].name = "Power" THEN [settings[i] EXCEPT !.value = sTrue]
        ELSE settings[i]]

FanProjection_StaleSpeed(device, currentActive, currentSpeed) ==
    LET settings == parseSettings(device)
        isPowerOn == settings.Power = sTrue
        fanSpeed == settings.SetFanSpeed
        isAuto == fanSpeed = sAuto \/ fanSpeed = <<"0">>
        isActive == isPowerOn /\ ~isAuto
        targetActive == IF isActive THEN ACTIVE ELSE INACTIVE
    IN  [active |-> IF targetActive # currentActive THEN targetActive ELSE currentActive,
         rotationSpeed |-> currentSpeed,
         events |->
            IF targetActive # currentActive
            THEN <<UpdateCharacteristicCall("Active", targetActive)>> ELSE <<>>]

FanProjection_AlwaysPublishesSpeed(device, currentActive, currentSpeed) ==
    LET settings == parseSettings(device)
        isPowerOn == settings.Power = sTrue
        fanSpeed == settings.SetFanSpeed
        isAuto == fanSpeed = sAuto \/ fanSpeed = <<"0">>
        isActive == isPowerOn /\ ~isAuto
        percentage == fanSpeedToPercentage(fanSpeed)
        targetActive == IF isActive THEN ACTIVE ELSE INACTIVE
    IN  [active |-> targetActive,
         rotationSpeed |-> percentage,
         events |->
            (IF targetActive # currentActive
             THEN <<UpdateCharacteristicCall("Active", targetActive)>> ELSE <<>>)
            \o <<UpdateCharacteristicCall("RotationSpeed", percentage)>>]

\* updateFromDevice after this.device = device: the characteristic values it leaves
\* and the updateCharacteristic calls it makes
FanProjection(device, currentActive, currentSpeed) ==
    LET settings == parseSettings(device)
        isPowerOn == settings.Power = sTrue
        fanSpeed == settings.SetFanSpeed
        isAuto == fanSpeed = sAuto \/ fanSpeed = <<"0">>
        isActive == isPowerOn /\ ~isAuto
        percentage == fanSpeedToPercentage(fanSpeed)
        targetActive == IF isActive THEN ACTIVE ELSE INACTIVE
    IN  [active |-> IF targetActive # currentActive THEN targetActive ELSE currentActive,
         rotationSpeed |-> IF percentage # currentSpeed THEN percentage ELSE currentSpeed,
         events |->
            (IF targetActive # currentActive
             THEN <<UpdateCharacteristicCall("Active", targetActive)>> ELSE <<>>)
            \o (IF percentage # currentSpeed
                THEN <<UpdateCharacteristicCall("RotationSpeed", percentage)>> ELSE <<>>)]

\* the snapshot and the published values of the fan
FanNow == [settings |-> fanDevice, active |-> fanActive, rotationSpeed |-> fanRotationSpeed]

\* what the step that ends a write records of it: the handler, the speed it set, the
\* command it sent, whether a refresh came during the await, and the state the step
\* began in
FanEnded ==
    [handler |-> fanFrame.handler, target |-> fanFrame.fanSpeed,
     sent |-> fanFrame.command, refreshed |-> fanEntry.refreshed, before |-> FanNow]

\* onGet of Active
FanGetActive ==
    /\ "fan" \in registered
    /\ fanPc = "idle"
    /\ last' = Step("fan", "getActive", None, "returned", FanGetActiveValue(fanDevice),
                    None, <<>>, None)
    /\ UNCHANGED <<registered, sameObject, unit, fanVars, swingVars>>

\* onGet of RotationSpeed
FanGetRotationSpeed ==
    /\ "fan" \in registered
    /\ fanPc = "idle"
    /\ last' = Step("fan", "getRotationSpeed", None, "returned", FanGetRotationSpeedValue(fanDevice),
                    None, <<>>, None)
    /\ UNCHANGED <<registered, sameObject, unit, fanVars, swingVars>>

\* platform refresh: updateFromDevice(device) with a device of the pool
FanUpdateFromDevice(pool) ==
    /\ "fan" \in registered
    /\ \E device \in pool \cup {swingDevice}, same \in BOOLEAN :
        LET shown == FanProjection(device, fanActive, fanRotationSpeed)
        IN  /\ IF same THEN "swing" \in registered /\ device = swingDevice
               ELSE device \in pool
            /\ sameObject' = same
            /\ fanDevice' = device
            /\ fanActive' = shown.active
            /\ fanRotationSpeed' = shown.rotationSpeed
            /\ fanEntry' = IF fanPc = "awaiting" THEN [fanEntry EXCEPT !.refreshed = TRUE]
                           ELSE fanEntry
            /\ last' = Step("fan", "updateFromDevice", device, "returned", Undefined, None,
                            shown.events, None)
    /\ UNCHANGED <<registered, unit, fanPc, fanFrame, swingVars>>

FanSetFanSpeed_Optimistic(handler, value, fanSpeed) ==
    LET settings == parseSettings(fanDevice)
        command == FanCommand(settings, fanSpeed)
        updatedSettings == FanUpdatedSettings(fanDevice, fanSpeed)
        shown == FanProjection(updatedSettings, fanActive, fanRotationSpeed)
    IN  /\ fanPc' = "awaiting"
        /\ fanFrame' = [handler |-> handler, fanSpeed |-> fanSpeed,
                        settings |-> settings, command |-> command]
        /\ fanEntry' = [active |-> fanActive, rotationSpeed |-> fanRotationSpeed,
                        refreshed |-> FALSE]
        /\ fanDevice' = updatedSettings
        /\ fanActive' = shown.active
        /\ fanRotationSpeed' = shown.rotationSpeed
        /\ last' = Step("fan", handler, value, "suspended", None, None,
                        <<ControlDeviceCall(command)>> \o shown.events, None)
        /\ UNCHANGED <<registered, sameObject, unit, swingVars>>

\* setFanSpeed up to its await: read the settings, build the command, call controlDevice
FanSetFanSpeed(handler, value, fanSpeed) ==
    LET settings == parseSettings(fanDevice)
        command == FanCommand(settings, fanSpeed)
    IN  /\ fanPc' = "awaiting"
        /\ fanFrame' = [handler |-> handler, fanSpeed |-> fanSpeed,
                        settings |-> settings, command |-> command]
        /\ fanEntry' = [active |-> fanActive, rotationSpeed |-> fanRotationSpeed,
                        refreshed |-> FALSE]
        /\ last' = Step("fan", handler, value, "suspended", None, None,
                        <<ControlDeviceCall(command)>>, None)
        /\ UNCHANGED <<registered, sameObject, unit, fanDevice, fanActive, fanRotationSpeed, swingVars>>

FanSetActive_Inverted ==
    /\ "fan" \in registered
    /\ fanPc = "idle"
    /\ \E value \in {ACTIVE, INACTIVE} :
        LET isActive == value = ACTIVE
        IN  IF ~isActive
            THEN FanSetFanSpeed("setActive", value, sFive)
            ELSE FanSetFanSpeed("setActive", value, sAuto)

\* onSet of Active
FanSetActive ==
    /\ "fan" \in registered
    /\ fanPc = "idle"
    /\ \E value \in {ACTIVE, INACTIVE} :
        LET isActive == value = ACTIVE
        IN  IF isActive
            THEN FanSetFanSpeed("setActive", value, sFive)
            ELSE FanSetFanSpeed("setActive", value, sAuto)

FanSetRotationSpeed_Rounds ==
    /\ "fan" \in registered
    /\ fanPc = "idle"
    /\ \E value \in MinPercentage..MaxPercentage :
        LET percentage == value
            fanSpeed == percentageToFanSpeed_Rounds(percentage)
        IN  FanSetFanSpeed("setRotationSpeed", value, fanSpeed)

\* onSet of RotationSpeed
FanSetRotationSpeed ==
    /\ "fan" \in registered
    /\ fanPc = "idle"
    /\ \E value \in MinPercentage..MaxPercentage :
        LET percentage == value
            fanSpeed == percentageToFanSpeed(percentage)
        IN  FanSetFanSpeed("setRotationSpeed", value, fanSpeed)

FanControlResolved_FromSentSnapshot ==
    /\ "fan" \in registered
    /\ fanPc = "awaiting"
    /\ LET readBefore == [i \in DOMAIN fanDevice |->
                             [fanDevice[i] EXCEPT
                                 !.value = fanFrame.settings[fanDevice[i].name]]]
           updatedSettings == FanUpdatedSettings(readBefore, fanFrame.fanSpeed)
           shown == FanProjection(updatedSettings, fanActive, fanRotationSpeed)
       IN  /\ fanDevice' = updatedSettings
           /\ swingDevice' = IF sameObject THEN updatedSettings ELSE swingDevice
           /\ fanActive' = shown.active
           /\ fanRotationSpeed' = shown.rotationSpeed
           /\ last' = Step("fan", fanFrame.handler, None, "returned", Undefined, None,
                           shown.events \o <<ScheduleRefreshCall>>,
                           FanEnded)
    /\ unit' = IF unit = <<>> THEN unit ELSE Applied(unit, fanFrame.command)
    /\ fanPc' = "idle"
    /\ fanFrame' = None
    /\ fanEntry' = None
    /\ UNCHANGED <<registered, sameObject, swingActive, swingPc, swingFrame, swingEntry>>

FanControlResolved_RefreshFirst ==
    /\ "fan" \in registered
    /\ fanPc = "awaiting"
    /\ LET updatedSettings == FanUpdatedSettings(fanDevice, fanFrame.fanSpeed)
           shown == FanProjection(updatedSettings, fanActive, fanRotationSpeed)
       IN  /\ fanDevice' = updatedSettings
           /\ swingDevice' = IF sameObject THEN updatedSettings ELSE swingDevice
           /\ fanActive' = shown.active
           /\ fanRotationSpeed' = shown.rotationSpeed
           /\ last' = Step("fan", fanFrame.handler, None, "returned", Undefined, None,
                           <<ScheduleRefreshCall>> \o shown.events,
                           FanEnded)
    /\ unit' = IF unit = <<>> THEN unit ELSE Applied(unit, fanFrame.command)
    /\ fanPc' = "idle"
    /\ fanFrame' = None
    /\ fanEntry' = None
    /\ UNCHANGED <<registered, sameObject, swingActive, swingPc, swingFrame, swingEntry>>

\* controlDevice resolved: update the cache (this.device.settings = ..., an assignment to
\* the object this.device references), updateFromDevice(this.device), scheduleRefresh
FanControlResolved ==
    /\ "fan" \in registered
    /\ fanPc = "awaiting"
    /\ LET updatedSettings == FanUpdatedSettings(fanDevice, fanFrame.fanSpeed)
           shown == FanProjection(updatedSettings, fanActive, fanRotationSpeed)
       IN  /\ fanDevice' = updatedSettings
           /\ swingDevice' = IF sameObject THEN updatedSettings ELSE swingDevice
           /\ fanActive' = shown.active
           /\ fanRotationSpeed' = shown.rotationSpeed
           /\ last' = Step("fan", fanFrame.handler, None, "returned", Undefined, None,
                           shown.events \o <<ScheduleRefreshCall>>,
                           FanEnded)
    /\ unit' = IF unit = <<>> THEN unit ELSE Applied(unit, fanFrame.command)
    /\ fanPc' = "idle"
    /\ fanFrame' = None
    /\ fanEntry' = None
    /\ UNCHANGED <<registered, sameObject, swingActive, swingPc, swingFrame, swingEntry>>

FanControlRejected_Rethrows ==
    /\ "fan" \in registered
    /\ fanPc = "awaiting"
    /\ \E error \in Errors :
        last' = Step("fan", fanFrame.handler, None, "threw", None,
                     error, <<LogErrorCall(error)>>, FanEnded)
    /\ fanPc' = "idle"
    /\ fanFrame' = None
    /\ fanEntry' = None
    /\ UNCHANGED <<registered, sameObject, unit, fanDevice, fanActive, fanRotationSpeed, swingVars>>

\* controlDevice rejected: log the error, throw HapStatusError
FanControlRejected ==
    /\ "fan" \in registered
    /\ fanPc = "awaiting"
    /\ \E error \in Errors :
        last' = Step("fan", fanFrame.handler, None, "threw", None,
                     SERVICE_COMMUNICATION_FAILURE, <<LogErrorCall(error)>>, FanEnded)
    /\ fanPc' = "idle"
    /\ fanFrame' = None
    /\ fanEntry' = None
    /\ UNCHANGED <<registered, sameObject, unit, fanDevice, fanActive, fanRotationSpeed, swingVars>>

----------------------------------------------------------------------------
(* SwingFan                                                                *)

\* getActive's return value
SwingGetActiveValue(device) ==
    LET settings == parseSettings(device)
        isPowerOn == settings.Power = sTrue
        vaneMode == normalizeVane(settings.VaneVerticalDirection)
        isSwing == vaneMode = s_swing
        isActive == isPowerOn /\ isSwing
    IN  IF isActive THEN ACTIVE ELSE INACTIVE

SwingCommand_PowersOn(settings, vaneDirection) ==
    [power |-> TRUE,
     operationMode |-> settings.OperationMode,
     setFanSpeed |-> settings.SetFanSpeed,
     vaneHorizontalDirection |-> settings.VaneHorizontalDirection,
     vaneVerticalDirection |-> vaneDirection,
     setTemperature |-> parseFloat(settings.SetTemperature),
     temperatureIncrementOverride |-> Null,
     inStandbyMode |-> Null]

\* the command setVanePosition hands to controlDevice
SwingCommand(settings, vaneDirection) ==
    [power |-> settings.Power = sTrue,
     operationMode |-> settings.OperationMode,
     setFanSpeed |-> settings.SetFanSpeed,
     vaneHorizontalDirection |-> settings.VaneHorizontalDirection,
     vaneVerticalDirection |-> vaneDirection,
     setTemperature |-> parseFloat(settings.SetTemperature),
     temperatureIncrementOverride |-> Null,
     inStandbyMode |-> Null]

\* setVanePosition's "Update cached state": this.device.settings.map(...)
SwingUpdatedSettings(settings, vaneDirection) ==
    [i \in DOMAIN settings |->
        IF settings[i].name = "VaneVerticalDirection"
        THEN [settings[i] EXCEPT !.value = vaneDirection]
        ELSE settings[i]]

\* updateFromDevice after this.device = device: the characteristic value it leaves
\* and the updateCharacteristic calls it makes
SwingProjection(device, currentActive) ==
    LET settings == parseSettings(device)
        isPowerOn == settings.Power = sTrue
        vaneMode == normalizeVane(settings.VaneVerticalDirection)
        isSwing == vaneMode = s_swing
        isActive == isPowerOn /\ isSwing
        targetActive == IF isActive THEN ACTIVE ELSE INACTIVE
    IN  [active |-> IF targetActive # currentActive THEN targetActive ELSE currentActive,
         events |-> IF targetActive # currentActive
                    THEN <<UpdateCharacteristicCall("Active", targetActive)>> ELSE <<>>]

\* the snapshot and the published value of the swing fan
SwingNow == [settings |-> swingDevice, active |-> swingActive]

\* what the step that ends a write records of it
SwingEnded ==
    [handler |-> swingFrame.handler, target |-> swingFrame.vaneDirection,
     sent |-> swingFrame.command, refreshed |-> swingEntry.refreshed, before |-> SwingNow]

\* onGet of Active
SwingGetActive ==
    /\ "swing" \in registered
    /\ swingPc = "idle"
    /\ last' = Step("swing", "getActive", None, "returned", SwingGetActiveValue(swingDevice), None,
                    <<>>, None)
    /\ UNCHANGED <<registered, sameObject, unit, fanVars, swingVars>>

\* platform refresh: updateFromDevice(device) with a device of the pool
SwingUpdateFromDevice(pool) ==
    /\ "swing" \in registered
    /\ \E device \in pool \cup {fanDevice}, same \in BOOLEAN :
        LET shown == SwingProjection(device, swingActive)
        IN  /\ IF same THEN "fan" \in registered /\ device = fanDevice
               ELSE device \in pool
            /\ sameObject' = same
            /\ swingDevice' = device
            /\ swingActive' = shown.active
            /\ swingEntry' = IF swingPc = "awaiting"
                             THEN [swingEntry EXCEPT !.refreshed = TRUE]
                             ELSE swingEntry
            /\ last' = Step("swing", "updateFromDevice", device, "returned", Undefined, None,
                            shown.events, None)
    /\ UNCHANGED <<registered, unit, swingPc, swingFrame, fanVars>>

\* setVanePosition up to its await: read the settings, build the command, call controlDevice
SwingSetVanePosition(handler, value, vaneDirection) ==
    LET settings == parseSettings(swingDevice)
        command == SwingCommand(settings, vaneDirection)
    IN  /\ swingPc' = "awaiting"
        /\ swingFrame' = [handler |-> handler, vaneDirection |-> vaneDirection,
                          settings |-> settings, command |-> command]
        /\ swingEntry' = [active |-> swingActive, refreshed |-> FALSE]
        /\ last' = Step("swing", handler, value, "suspended", None, None,
                        <<ControlDeviceCall(command)>>, None)
        /\ UNCHANGED <<registered, sameObject, unit, swingDevice, swingActive, fanVars>>

\* onSet of Active
SwingSetActive ==
    /\ "swing" \in registered
    /\ swingPc = "idle"
    /\ \E value \in {ACTIVE, INACTIVE} :
        LET isActive == value = ACTIVE
        IN  IF isActive
            THEN SwingSetVanePosition("setActive", value, sSwing)
            ELSE SwingSetVanePosition("setActive", value, sAuto)

\* controlDevice resolved: update the cache, updateFromDevice(this.device), scheduleRefresh
SwingControlResolved ==
    /\ "swing" \in registered
    /\ swingPc = "awaiting"
    /\ LET updatedSettings == SwingUpdatedSettings(swingDevice, swingFrame.vaneDirection)
           shown == SwingProjection(updatedSettings, swingActive)
       IN  /\ swingDevice' = updatedSettings
           /\ fanDevice' = IF sameObject THEN updatedSettings ELSE fanDevice
           /\ swingActive' = shown.active
           /\ last' = Step("swing", swingFrame.handler, None, "returned", Undefined, None,
                           shown.events \o <<ScheduleRefreshCall>>,
                           SwingEnded)
    /\ unit' = IF unit = <<>> THEN unit ELSE Applied(unit, swingFrame.command)
    /\ swingPc' = "idle"
    /\ swingFrame' = None
    /\ swingEntry' = None
    /\ UNCHANGED <<registered, sameObject, fanActive, fanRotationSpeed, fanPc, fanFrame,
                   fanEntry>>

\* controlDevice rejected: log the error, throw HapStatusError
SwingControlRejected ==
    /\ "swing" \in registered
    /\ swingPc = "awaiting"
    /\ \E error \in Errors :
        last' = Step("swing", swingFrame.handler, None, "threw", None,
                     SERVICE_COMMUNICATION_FAILURE, <<LogErrorCall(error)>>, SwingEnded)
    /\ swingPc' = "idle"
    /\ swingFrame' = None
    /\ swingEntry' = None
    /\ UNCHANGED <<registered, sameObject, unit, swingDevice, swingActive, fanVars>>

----------------------------------------------------------------------------
(* Calls of the pure mappers, on their own: no accessory is constructed.   *)

CallPercentageToFanSpeed(percentages) ==
    /\ registered = {}
    /\ \E percentage \in percentages :
        last' = Step("static", "percentageToFanSpeed", percentage, "returned",
                     percentageToFanSpeed(percentage), None, <<>>, None)
    /\ UNCHANGED <<registered, sameObject, unit, fanVars, swingVars>>

CallFanSpeedToPercentage(strings) ==
    /\ registered = {}
    /\ \E fanSpeed \in strings :
        last' = Step("static", "fanSpeedToPercentage", fanSpeed, "returned",
                     fanSpeedToPercentage(fanSpeed), None, <<>>, None)
    /\ UNCHANGED <<registered, sameObject, unit, fanVars, swingVars>>

CallNormalizeVane(strings) ==
    /\ registered = {}
    /\ \E vane \in strings :
        last' = Step("static", "normalizeVane", vane, "returned", normalizeVane(vane),
                     None, <<>>, None)
    /\ UNCHANGED <<registered, sameObject, unit, fanVars, swingVars>>

----------------------------------------------------------------------------
(* The values the model draws from.                                        *)

LevelNames == {sAuto, sOne, sTwo, sThree, sFour, sFive}
NumericAliases == {<<"0">>, <<"1">>, <<"2">>, <<"3">>, <<"4">>, <<"5">>}

LowerOf(c) == IF c \in DOMAIN UpperToLower THEN UpperToLower[c] ELSE c
UpperOf(c) ==
    IF \E u \in DOMAIN UpperToLower : UpperToLower[u] = c
    THEN CHOOSE u \in DOMAIN UpperToLower : UpperToLower[u] = c
    ELSE c

RECURSIVE CaseVariants(_)
\* every spelling of s in upper and lower case letters
CaseVariants(s) ==
    IF s = <<>> THEN {<<>>}
    ELSE {<<c>> \o rest : c \in {LowerOf(Head(s)), UpperOf(Head(s))},
                          rest \in CaseVariants(Tail(s))}

sSilent == <<"S", "i", "l", "e", "n", "t">>
sHeat == <<"H", "e", "a", "t">>
sCool == <<"C", "o", "o", "l">>
sCentre == <<"C", "e", "n", "t", "r", "e">>
s21 == <<"2", "1">>
s22_5 == <<"2", "2", ".", "5">>
sEmpty == <<>>

\* every case variant of a level name, the numeric aliases, and strings that are neither
SpeedStrings ==
    UNION {CaseVariants(name) : name \in LevelNames} \cup NumericAliases
        \cup {sSilent, <<"6">>, sEmpty}

\* every case variant of auto, swing and six, the numeric aliases, and other positions
VaneStrings ==
    UNION {CaseVariants(name) : name \in {s_auto, s_swing, s_six}}
        \cup {<<"0">>, <<"6">>, <<"7">>, <<"1">>, sThree, sEmpty}

MkSettings(power, operationMode, fanSpeed, vaneHorizontal, vaneVertical, temperature) ==
    <<[name |-> "Power", value |-> power],
      [name |-> "OperationMode", value |-> operationMode],
      [name |-> "SetFanSpeed", value |-> fanSpeed],
      [name |-> "VaneHorizontalDirection", value |-> vaneHorizontal],
      [name |-> "VaneVerticalDirection", value |-> vaneVertical],
      [name |-> "SetTemperature", value |-> temperature]>>

\* two units that differ in every field an accessory does not show
Heating ==
    [operationMode |-> sHeat, fanSpeed |-> sAuto, vaneHorizontal |-> sAuto,
     vaneVertical |-> sAuto, temperature |-> s21]
Cooling ==
    [operationMode |-> sCool, fanSpeed |-> sThree, vaneHorizontal |-> sSwing,
     vaneVertical |-> sSwing, temperature |-> s22_5]
Profiles == {Heating, Cooling}

\* a unit whose temperature is not a number
Malformed == MkSettings(sTrue, sHeat, sThree, sCentre, sSwing, sEmpty)

\* the units of profiles, with every power and every fan speed of speeds
FanDevices(profiles, speeds) ==
    {MkSettings(power, profile.operationMode, speed, profile.vaneHorizontal,
                profile.vaneVertical, profile.temperature) :
        power \in {sTrue, sFalse}, profile \in profiles, speed \in speeds}

\* the units of profiles, with every power and every vertical vane of vanes
SwingDevices(profiles, vanes) ==
    {MkSettings(power, profile.operationMode, profile.fanSpeed, profile.vaneHorizontal,
                vane, profile.temperature) :
        power \in {sTrue, sFalse}, profile \in profiles, vane \in vanes}

\* the devices the platform hands to an accessory that is also written to
FanPool == FanDevices(Profiles, {sAuto, s_auto, s_three}) \cup {Malformed}
SwingPool == SwingDevices(Profiles, {sAuto, <<"7">>, sThree}) \cup {Malformed}

\* the devices the platform hands to an accessory that is only read
FanReadPool == FanDevices({Cooling}, SpeedStrings)
SwingReadPool == SwingDevices({Cooling}, VaneStrings)

Percentages == MinPercentage..MaxPercentage
CanonicalPercentages == {0, 20, 40, 60, 80, 100}

----------------------------------------------------------------------------
(* The state after construction: this.device = accessory.context.device,   *)
(* the characteristics of the new Fanv2 service hold their initial values  *)
(* (Active INACTIVE, RotationSpeed at its minValue), no write is going on. *)

Constructed(accessories, fanPool, swingPool) ==
    /\ registered \in accessories
    /\ IF "fan" \in registered
       THEN /\ fanDevice \in fanPool
            /\ fanActive = INACTIVE
            /\ fanRotationSpeed = MinPercentage
       ELSE /\ fanDevice = <<>>
            /\ fanActive = INACTIVE
            /\ fanRotationSpeed = MinPercentage
    /\ fanPc = "idle"
    /\ fanFrame = None
    /\ fanEntry = None
    /\ IF "swing" \in registered
       THEN /\ swingDevice \in swingPool
            /\ swingActive = INACTIVE
       ELSE /\ swingDevice = <<>>
            /\ swingActive = INACTIVE
    /\ swingPc = "idle"
    /\ swingFrame = None
    /\ swingEntry = None
    /\ sameObject = FALSE
    /\ unit = <<>>
    /\ last = Step("none", "constructor", None, "returned", Undefined, None, <<>>, None)

\* one accessory of the unit is driven: reads, writes and refreshes
Init == Constructed({{"fan"}, {"swing"}}, FanPool, SwingPool)

Next ==
    \/ FanGetActive
    \/ FanGetRotationSpeed
    \/ FanSetActive
    \/ FanSetRotationSpeed
    \/ FanControlResolved
    \/ FanControlRejected
    \/ FanUpdateFromDevice(FanPool)
    \/ SwingGetActive
    \/ SwingSetActive
    \/ SwingControlResolved
    \/ SwingControlRejected
    \/ SwingUpdateFromDevice(SwingPool)

Spec == Init /\ [][Next]_vars

\* one accessory of the unit is read and refreshed, over every spelling of its field,
\* or normalizeVane is applied to every spelling
InitRead == Constructed({{"fan"}, {"swing"}, {}}, FanReadPool, SwingReadPool)

NextRead ==
    \/ FanGetActive
    \/ FanGetRotationSpeed
    \/ FanUpdateFromDevice(FanReadPool)
    \/ SwingGetActive
    \/ SwingUpdateFromDevice(SwingReadPool)
    \/ CallNormalizeVane(VaneStrings)

SpecRead == InitRead /\ [][NextRead]_vars

\* the mappers alone
InitMap == Constructed({{}}, {}, {})

NextMap ==
    \/ CallPercentageToFanSpeed(Percentages)
    \/ CallFanSpeedToPercentage(SpeedStrings)
    \/ CallNormalizeVane(VaneStrings)

SpecMap == InitMap /\ [][NextMap]_vars

\* the units the two accessories of the joint model are constructed over
UnitPool ==
    {MkSettings(power, sCool, speed, sSwing, vane, s22_5) :
        power \in {sTrue, sFalse}, speed \in {sThree}, vane \in {sAuto, sSwing}}

\* both accessories are constructed over one unit: each accessory.context.device
\* holds the settings the unit reports, and the platform handed either one object
\* to both accessories or an object to each
ConstructedOverUnit(units) ==
    /\ registered = {"fan", "swing"}
    /\ unit \in units
    /\ sameObject \in BOOLEAN
    /\ fanDevice = unit
    /\ fanActive = INACTIVE
    /\ fanRotationSpeed = MinPercentage
    /\ fanPc = "idle"
    /\ fanFrame = None
    /\ fanEntry = None
    /\ swingDevice = unit
    /\ swingActive = INACTIVE
    /\ swingPc = "idle"
    /\ swingFrame = None
    /\ swingEntry = None
    /\ last = Step("none", "constructor", None, "returned", Undefined, None, <<>>, None)

\* the fan and the swing accessory of one unit: setActive on both, and refreshes that
\* deliver the settings the unit reports
InitUnit == ConstructedOverUnit(UnitPool)

NextUnit ==
    \/ FanSetActive
    \/ FanControlResolved
    \/ FanControlRejected
    \/ FanUpdateFromDevice({unit})
    \/ SwingSetActive
    \/ SwingControlResolved
    \/ SwingControlRejected
    \/ SwingUpdateFromDevice({unit})

SpecUnit == InitUnit /\ [][NextUnit]_vars

----------------------------------------------------------------------------
(* The claims.                                                             *)

\* a write has just ended: its handler threw, or returned
Faulted == last.status = "threw"
Succeeded == last.status = "returned" /\ last.op \in {"setActive", "setRotationSpeed"}

ValueOf(settings, name) ==
    LET i == CHOOSE j \in DOMAIN settings : settings[j].name = name
    IN  settings[i].value

\* the same entries in the same order, with the same values except under names
SameExcept(after, before, names) ==
    /\ DOMAIN after = DOMAIN before
    /\ \A i \in DOMAIN after :
        /\ after[i].name = before[i].name
        /\ after[i].name \notin names => after[i].value = before[i].value

CommandFields ==
    {"power", "operationMode", "setFanSpeed", "vaneHorizontalDirection",
     "vaneVerticalDirection", "setTemperature", "temperatureIncrementOverride",
     "inStandbyMode"}

\* the number a temperature string of the pools denotes
TemperatureOf(string) ==
    CASE string = s21 -> [nan |-> FALSE, milli |-> 21000]
      [] string = s22_5 -> [nan |-> FALSE, milli |-> 22500]
      [] string = sEmpty -> NaN

JustSent(acc) == last.acc = acc /\ last.status = "suspended"

\* what a command carries beside the field it writes, given the snapshot it was built from
CarriesSnapshot(command, settings) ==
    /\ DOMAIN command = CommandFields
    /\ command.operationMode = ValueOf(settings, "OperationMode")
    /\ command.vaneHorizontalDirection = ValueOf(settings, "VaneHorizontalDirection")
    /\ command.setTemperature = TemperatureOf(ValueOf(settings, "SetTemperature"))
    /\ command.temperatureIncrementOverride = Null
    /\ command.inStandbyMode = Null

\* C2: every controlDevice command carries the eight fields, and each field the write
\* does not target holds the value of the accessory's snapshot when the command is
\* sent; the fan's power is always true.
C2_CommandCarriesSnapshot ==
    \A i \in DOMAIN last.events :
        last.events[i].call = "controlDevice" =>
            LET command == last.events[i].command
            IN  /\ last.acc = "fan" =>
                    /\ CarriesSnapshot(command, fanDevice)
                    /\ command.power = TRUE
                    /\ command.vaneVerticalDirection
                           = ValueOf(fanDevice, "VaneVerticalDirection")
                /\ last.acc = "swing" =>
                    /\ CarriesSnapshot(command, swingDevice)
                    /\ command.power = (ValueOf(swingDevice, "Power") = sTrue)
                    /\ command.setFanSpeed = ValueOf(swingDevice, "SetFanSpeed")

\* the fan has just sent a command from a snapshot with the power off and the vane swinging
C2_Witness ==
    /\ JustSent("fan")
    /\ ValueOf(fanDevice, "Power") = sFalse
    /\ ValueOf(fanDevice, "VaneVerticalDirection") = sSwing
    /\ last.events[1].command.vaneVerticalDirection = sSwing

\* C3 as stated: after a successful write the snapshot differs from the one held just
\* before the update in the written field only; every other field, Power too, is kept.
C3_OnlyTargetFieldChanges ==
    Succeeded =>
        /\ last.acc = "fan" =>
            SameExcept(fanDevice, last.ended.before.settings, {"SetFanSpeed"})
        /\ last.acc = "swing" =>
            SameExcept(swingDevice, last.ended.before.settings, {"VaneVerticalDirection"})

\* C3 amended: the written field holds the written value and every other field is
\* kept, except that a fan write also leaves Power at "True".
C3_TargetFieldAndFanPowerChange ==
    Succeeded =>
        /\ last.acc = "fan" =>
            /\ SameExcept(fanDevice, last.ended.before.settings, {"SetFanSpeed", "Power"})
            /\ ValueOf(fanDevice, "SetFanSpeed") = last.ended.target
            /\ ValueOf(fanDevice, "Power") = sTrue
        /\ last.acc = "swing" =>
            /\ SameExcept(swingDevice, last.ended.before.settings, {"VaneVerticalDirection"})
            /\ ValueOf(swingDevice, "VaneVerticalDirection") = last.ended.target

\* a fan write has succeeded on a snapshot whose Power was "False"
C3_Witness ==
    /\ Succeeded
    /\ last.acc = "fan"
    /\ ValueOf(last.ended.before.settings, "Power") = sFalse
    /\ ValueOf(fanDevice, "Power") = sTrue

RecognisedSpeeds == UNION {CaseVariants(name) : name \in LevelNames} \cup NumericAliases

\* the Active value C4 gives a snapshot
C4_Active(settings) ==
    IF ValueOf(settings, "Power") = sTrue
       /\ fanSpeedToPercentage(ValueOf(settings, "SetFanSpeed")) > 0
    THEN ACTIVE ELSE INACTIVE

\* C4: for a snapshot whose SetFanSpeed is a case variant of a level name or a numeric
\* alias, the fan's Active, returned by getActive and published by updateFromDevice,
\* is ACTIVE exactly when Power is "True" and the level is not Auto.
C4_FanActiveIffPoweredAndNotAuto ==
    (last.acc = "fan" /\ ValueOf(fanDevice, "SetFanSpeed") \in RecognisedSpeeds) =>
        /\ last.op = "getActive" => last.ret = C4_Active(fanDevice)
        /\ last.op = "updateFromDevice" => fanActive = C4_Active(fanDevice)

\* C5: setActive(ACTIVE) on the fan sends setFanSpeed "Five" with power true, and its
\* success leaves SetFanSpeed "Five" and Power "True" in the snapshot and publishes
\* Active ACTIVE and RotationSpeed 100, whatever the snapshot was. (The suspended
\* setActive that holds "Five" is the one called with ACTIVE.)
C5_TurnOnSetsFiveAndPower ==
    /\ (JustSent("fan") /\ last.op = "setActive" /\ last.arg = ACTIVE) =>
        /\ last.events[1].command.setFanSpeed = sFive
        /\ last.events[1].command.power = TRUE
        /\ fanFrame.handler = "setActive"
        /\ fanFrame.fanSpeed = sFive
    /\ (Succeeded /\ last.acc = "fan" /\ last.ended.handler = "setActive"
            /\ last.ended.target = sFive) =>
        /\ ValueOf(fanDevice, "SetFanSpeed") = sFive
        /\ ValueOf(fanDevice, "Power") = sTrue
        /\ fanActive = ACTIVE
        /\ fanRotationSpeed = 100

\* setActive(ACTIVE) has succeeded on a fan that was off and shown inactive
C5_Witness ==
    /\ Succeeded
    /\ last.acc = "fan"
    /\ last.ended.handler = "setActive"
    /\ last.ended.target = sFive
    /\ ValueOf(last.ended.before.settings, "Power") = sFalse
    /\ last.ended.before.active = INACTIVE
    /\ fanActive = ACTIVE

C7_SecondUpdatePublishesNothing ==
    [][(/\ last.op = "updateFromDevice"
        /\ last'.op = "updateFromDevice"
        /\ last'.acc = last.acc
        /\ last'.arg = last.arg) => last'.events = <<>>]_vars

\* an update has published nothing although the fan is shown active at a speed
C7_Witness ==
    /\ last.acc = "fan"
    /\ last.op = "updateFromDevice"
    /\ last.events = <<>>
    /\ fanActive = ACTIVE
    /\ fanRotationSpeed = 60

AutoSpellings == CaseVariants(s_auto) \cup {<<"0">>}
SwingSpellings ==
    CaseVariants(s_swing) \cup CaseVariants(s_six) \cup {<<"6">>, <<"7">>}

\* the Active value C8 gives a snapshot
C8_Active(settings) ==
    IF ValueOf(settings, "Power") = sTrue
       /\ ValueOf(settings, "VaneVerticalDirection") \in SwingSpellings
    THEN ACTIVE ELSE INACTIVE

\* C8: the swing fan's Active, returned by getActive and published by
\* updateFromDevice, is ACTIVE exactly when Power is "True" and the vertical vane is a
\* case variant of "6", "six", "7" or "swing"; normalizeVane gives swing for those,
\* auto for the case variants of "0" and "auto", and neither for anything else.
C8_SwingActiveIffPoweredAndSwinging ==
    /\ (last.acc = "swing" /\ last.op = "getActive") => last.ret = C8_Active(swingDevice)
    /\ (last.acc = "swing" /\ last.op = "updateFromDevice") =>
            swingActive = C8_Active(swingDevice)
    /\ last.op = "normalizeVane" =>
        /\ last.arg \in SwingSpellings <=> last.ret = s_swing
        /\ last.arg \in AutoSpellings <=> last.ret = s_auto

\* getActive has returned ACTIVE for a vane spelt "SiX"
C8_Witness ==
    /\ last.acc = "swing"
    /\ last.op = "getActive"
    /\ ValueOf(swingDevice, "VaneVerticalDirection") = <<"S", "i", "X">>
    /\ last.ret = ACTIVE

\* C9: percentageToFanSpeed then fanSpeedToPercentage gives back each of 0, 20, 40,
\* 60, 80, 100, and fanSpeedToPercentage then percentageToFanSpeed gives back each
\* level name.
C9_MappersRoundTrip ==
    /\ (last.op = "percentageToFanSpeed" /\ last.arg \in CanonicalPercentages) =>
            fanSpeedToPercentage(last.ret) = last.arg
    /\ (last.op = "fanSpeedToPercentage" /\ last.arg \in LevelNames) =>
            percentageToFanSpeed(last.ret) = last.arg

\* percentageToFanSpeed(60) has returned "Three"
C9_Witness == last.op = "percentageToFanSpeed" /\ last.arg = 60 /\ last.ret = sThree

Levels == <<sAuto, sOne, sTwo, sThree, sFour, sFive>>
RankOf(level) == CHOOSE i \in DOMAIN Levels : Levels[i] = level

\* C10: over 0..100 percentageToFanSpeed gives Auto for 0, One for 1..20, Two for
\* 21..40, Three for 41..60, Four for 61..80 and Five for 81..100, and never a lower
\* level for a higher percentage.
C10_UpperInclusiveBuckets ==
    last.op = "percentageToFanSpeed" =>
        /\ last.ret = CASE last.arg = 0 -> sAuto
                        [] last.arg \in 1..20 -> sOne
                        [] last.arg \in 21..40 -> sTwo
                        [] last.arg \in 41..60 -> sThree
                        [] last.arg \in 61..80 -> sFour
                        [] last.arg \in 81..100 -> sFive
        /\ \A lower \in MinPercentage..last.arg :
            RankOf(percentageToFanSpeed(lower)) <= RankOf(last.ret)

\* percentageToFanSpeed(21) has returned "Two"
C10_Witness == last.op = "percentageToFanSpeed" /\ last.arg = 21 /\ last.ret = sTwo

\* the calls of a kind among the calls a step made
CallsOf(events, kind) == {i \in DOMAIN events : events[i].call = kind}

\* the level of the upper-inclusive bucket of 20 a percentage lies in
BucketLevel(percentage) == Levels[(percentage + 19) \div 20 + 1]

\* C11: setRotationSpeed(p) on the fan, for p in 0..100, makes exactly one
\* controlDevice call, whose setFanSpeed is the level of p's bucket; the write holds
\* that level until it ends, and its success leaves that level in the cached
\* SetFanSpeed and publishes the level's percentage as RotationSpeed.
C11_RotationSpeedDispatchesLevel ==
    /\ (JustSent("fan") /\ last.op = "setRotationSpeed") =>
        /\ last.arg \in MinPercentage..MaxPercentage
        /\ Cardinality(CallsOf(last.events, "controlDevice")) = 1
        /\ last.events[1].command.setFanSpeed = BucketLevel(last.arg)
        /\ fanFrame.fanSpeed = BucketLevel(last.arg)
    /\ (Succeeded /\ last.acc = "fan" /\ last.ended.handler = "setRotationSpeed") =>
        /\ CallsOf(last.events, "controlDevice") = {}
        /\ last.ended.target \in LevelNames
        /\ ValueOf(fanDevice, "SetFanSpeed") = last.ended.target
        /\ fanRotationSpeed = 20 * (RankOf(last.ended.target) - 1)

\* setRotationSpeed has succeeded with "Three" on a fan shown at 0: 60 is published
C11_Witness ==
    /\ Succeeded
    /\ last.acc = "fan"
    /\ last.ended.handler = "setRotationSpeed"
    /\ last.ended.target = sThree
    /\ last.ended.before.rotationSpeed = 0
    /\ ValueOf(fanDevice, "SetFanSpeed") = sThree
    /\ fanRotationSpeed = 60

\* C12: a snapshot whose SetFanSpeed is neither a level name nor a numeric alias, in
\* any case, is shown by the fan as Auto: getRotationSpeed returns 0, getActive returns
\* INACTIVE and updateFromDevice leaves RotationSpeed 0 and Active INACTIVE published;
\* a snapshot whose vertical vane is no spelling of swing is shown INACTIVE by the
\* swing fan. None of these handlers throws.
C12_UnrecognisedIsBaseline ==
    /\ (last.acc = "fan" /\ ValueOf(fanDevice, "SetFanSpeed") \notin RecognisedSpeeds) =>
        /\ last.status # "threw"
        /\ last.op = "getActive" => last.ret = INACTIVE
        /\ last.op = "getRotationSpeed" => last.ret = 0
        /\ last.op = "updateFromDevice" => fanActive = INACTIVE /\ fanRotationSpeed = 0
    /\ (last.acc = "swing"
            /\ ValueOf(swingDevice, "VaneVerticalDirection") \notin SwingSpellings) =>
        /\ last.status # "threw"
        /\ last.op = "getActive" => last.ret = INACTIVE
        /\ last.op = "updateFromDevice" => swingActive = INACTIVE

\* the calls a successful write makes once controlDevice has resolved: the
\* updateCharacteristic calls, each with the value the updated cache projects to, and
\* then, last and once, scheduleRefresh
PublishesThenSchedules(events, active, rotationSpeed) ==
    /\ Len(events) >= 1
    /\ events[Len(events)] = ScheduleRefreshCall
    /\ CallsOf(events, "scheduleRefresh") = {Len(events)}
    /\ \A i \in 1..(Len(events) - 1) :
        /\ events[i].call = "updateCharacteristic"
        /\ events[i].characteristic = "Active" => events[i].value = active
        /\ events[i].characteristic = "RotationSpeed" => events[i].value = rotationSpeed

\* C13: a write succeeds in one step taken while its controlDevice call is pending;
\* that step puts the written value in the cache, publishes what the updated cache
\* projects to, and then calls scheduleRefresh, once and last. A step that sends the
\* command or ends the write in a fault neither changes the cache nor calls
\* scheduleRefresh.
C13_SuccessOrder ==
    [][/\ (Succeeded' /\ last'.acc = "fan") =>
            /\ fanPc = "awaiting" /\ fanPc' = "idle"
            /\ ValueOf(fanDevice', "SetFanSpeed") = fanFrame.fanSpeed
            /\ PublishesThenSchedules(last'.events, FanGetActiveValue(fanDevice'),
                                      FanGetRotationSpeedValue(fanDevice'))
       /\ (Succeeded' /\ last'.acc = "swing") =>
            /\ swingPc = "awaiting" /\ swingPc' = "idle"
            /\ ValueOf(swingDevice', "VaneVerticalDirection") = swingFrame.vaneDirection
            /\ PublishesThenSchedules(last'.events, SwingGetActiveValue(swingDevice'), 0)
       /\ last'.status \in {"suspended", "threw"} =>
            /\ CallsOf(last'.events, "scheduleRefresh") = {}
            /\ fanDevice' = fanDevice
            /\ swingDevice' = swingDevice]_vars

\* a fan write has succeeded and published both characteristics before scheduling
C13_Witness ==
    /\ Succeeded
    /\ last.acc = "fan"
    /\ Len(last.events) = 3
    /\ last.events[1].call = "updateCharacteristic"
    /\ last.events[2].call = "updateCharacteristic"
    /\ last.events[3] = ScheduleRefreshCall

\* C14: a write calls controlDevice once, in the step that sends the command, and
\* the step that ends the write calls it no more; a write that ends in a fault has
\* called scheduleRefresh in no step, is over, and threw
\* SERVICE_COMMUNICATION_FAILURE whichever error controlDevice rejected with.
C14_OneCallOneFault ==
    /\ last.status = "suspended" =>
        /\ Len(last.events) = 1
        /\ last.events[1].call = "controlDevice"
    /\ last.status \in {"returned", "threw"} => CallsOf(last.events, "controlDevice") = {}
    /\ Faulted =>
        /\ last.thrown = SERVICE_COMMUNICATION_FAILURE
        /\ CallsOf(last.events, "scheduleRefresh") = {}
        /\ \E error \in Errors : last.events = <<LogErrorCall(error)>>
        /\ last.acc = "fan" => fanPc = "idle"
        /\ last.acc = "swing" => swingPc = "idle"

\* a swing write has ended in the one fault after controlDevice rejected with an API error
C14_Witness ==
    /\ Faulted
    /\ last.acc = "swing"
    /\ last.events = <<LogErrorCall(Unauthorized)>>
    /\ last.thrown = SERVICE_COMMUNICATION_FAILURE
    /\ swingPc = "idle"

\* C15: setActive(INACTIVE) on the fan sends setFanSpeed "Auto" with power true,
\* whatever the snapshot's Power, and its success leaves SetFanSpeed "Auto" and Power
\* "True" in the cache and Active INACTIVE and RotationSpeed 0 published. (The
\* suspended setActive that holds "Auto" is the one called with INACTIVE.)
C15_TurnOffSetsAutoAndPowersOn ==
    /\ (JustSent("fan") /\ last.op = "setActive" /\ last.arg = INACTIVE) =>
        /\ last.events[1].command.setFanSpeed = sAuto
        /\ last.events[1].command.power = TRUE
        /\ fanFrame.handler = "setActive"
        /\ fanFrame.fanSpeed = sAuto
    /\ (Succeeded /\ last.acc = "fan" /\ last.ended.handler = "setActive"
            /\ last.ended.target = sAuto) =>
        /\ ValueOf(fanDevice, "SetFanSpeed") = sAuto
        /\ ValueOf(fanDevice, "Power") = sTrue
        /\ fanActive = INACTIVE
        /\ fanRotationSpeed = 0

\* setActive(INACTIVE) has succeeded on a unit that was off: its Power is now "True"
C15_Witness ==
    /\ Succeeded
    /\ last.acc = "fan"
    /\ last.ended.handler = "setActive"
    /\ last.ended.target = sAuto
    /\ ValueOf(last.ended.before.settings, "Power") = sFalse
    /\ ValueOf(fanDevice, "Power") = sTrue
    /\ fanActive = INACTIVE
    /\ fanRotationSpeed = 0

\* C16: with both accessories over one unit, the step in which a write on one
\* accessory succeeds changes neither the snapshot the other accessory reads nor the
\* other accessory's published values; an accessory's snapshot changes only in a step
\* of its own (its refresh, or its own write).
C16_WriteLeavesOtherAccessoryAlone ==
    [][/\ (Succeeded' /\ last'.acc = "fan") =>
            /\ swingDevice' = swingDevice
            /\ SwingGetActiveValue(swingDevice') = SwingGetActiveValue(swingDevice)
            /\ swingActive' = swingActive
       /\ (Succeeded' /\ last'.acc = "swing") =>
            /\ fanDevice' = fanDevice
            /\ FanGetActiveValue(fanDevice') = FanGetActiveValue(fanDevice)
            /\ FanGetRotationSpeedValue(fanDevice') = FanGetRotationSpeedValue(fanDevice)
            /\ fanActive' = fanActive
            /\ fanRotationSpeed' = fanRotationSpeed
       /\ fanDevice' # fanDevice => last'.acc = "fan"
       /\ swingDevice' # swingDevice => last'.acc = "swing"]_vars

\* C17: the step in which a fan write succeeds leaves the written speed in the remote
\* unit's SetFanSpeed and the unit's VaneVerticalDirection as it was; the step in
\* which a swing write succeeds leaves the written direction in the unit's
\* VaneVerticalDirection and the unit's SetFanSpeed as it was; no other step changes
\* the unit. (So each axis of the unit holds what the latest write on it sent.)
C17_WritesPreserveOtherAxis ==
    [][/\ (Succeeded' /\ last'.acc = "fan") =>
            /\ ValueOf(unit', "SetFanSpeed") = fanFrame.fanSpeed
            /\ ValueOf(unit', "VaneVerticalDirection")
                   = ValueOf(unit, "VaneVerticalDirection")
       /\ (Succeeded' /\ last'.acc = "swing") =>
            /\ ValueOf(unit', "VaneVerticalDirection") = swingFrame.vaneDirection
            /\ ValueOf(unit', "SetFanSpeed") = ValueOf(unit, "SetFanSpeed")
       /\ ~Succeeded' => unit' = unit]_vars

\* C18: a refresh delivered while a write is suspended at controlDevice replaces the
\* accessory's snapshot by the delivered one and leaves the write suspended; no other
\* step of the accessory changes the snapshot during the await; and when the call
\* succeeds after a refresh, the new snapshot is the one the refresh left with only
\* the written fields replaced (SetFanSpeed and Power "True" on the fan,
\* VaneVerticalDirection on the swing fan).
C18_RefreshDuringWriteIsKept ==
    [][/\ (fanPc = "awaiting" /\ fanPc' = "awaiting" /\ last'.acc = "fan") =>
            IF last'.op = "updateFromDevice"
            THEN fanDevice' = last'.arg /\ fanEntry'.refreshed /\ fanFrame' = fanFrame
            ELSE fanDevice' = fanDevice
       /\ (Succeeded' /\ last'.acc = "fan" /\ fanEntry.refreshed) =>
            /\ SameExcept(fanDevice', fanDevice, {"SetFanSpeed", "Power"})
            /\ ValueOf(fanDevice', "SetFanSpeed") = fanFrame.fanSpeed
            /\ ValueOf(fanDevice', "Power") = sTrue
       /\ (swingPc = "awaiting" /\ swingPc' = "awaiting" /\ last'.acc = "swing") =>
            IF last'.op = "updateFromDevice"
            THEN swingDevice' = last'.arg /\ swingEntry'.refreshed
                 /\ swingFrame' = swingFrame
            ELSE swingDevice' = swingDevice
       /\ (Succeeded' /\ last'.acc = "swing" /\ swingEntry.refreshed) =>
            /\ SameExcept(swingDevice', swingDevice, {"VaneVerticalDirection"})
            /\ ValueOf(swingDevice', "VaneVerticalDirection") = swingFrame.vaneDirection]_vars

\* a fan write sent from a heating unit has succeeded after a refresh delivered a
\* cooling unit: the snapshot keeps the refreshed mode and temperature
C18_Witness ==
    /\ Succeeded
    /\ last.acc = "fan"
    /\ last.ended.refreshed
    /\ last.ended.sent.operationMode = sHeat
    /\ ValueOf(last.ended.before.settings, "OperationMode") = sCool
    /\ ValueOf(fanDevice, "OperationMode") = sCool
    /\ ValueOf(fanDevice, "SetTemperature") = s22_5
    /\ ValueOf(fanDevice, "SetFanSpeed") = last.ended.target

\* an updateFromDevice call of the accessory has just completed: a refresh, or the
\* call a successful write makes
JustUpdated(acc) == last.acc = acc /\ (last.op = "updateFromDevice" \/ Succeeded)

\* C19: right after an updateFromDevice call of an accessory completes, in a refresh
\* or in a successful write, the accessory's published values are what its getters
\* return from its cached snapshot: Active and RotationSpeed on the fan, Active on
\* the swing fan.
C19_PublishedIsProjection ==
    /\ JustUpdated("fan") =>
        /\ fanActive = FanGetActiveValue(fanDevice)
        /\ fanRotationSpeed = FanGetRotationSpeedValue(fanDevice)
    /\ JustUpdated("swing") => swingActive = SwingGetActiveValue(swingDevice)

\* a refresh of the fan has published both characteristics: ACTIVE at 60
C19_Witness ==
    /\ last.acc = "fan"
    /\ last.op = "updateFromDevice"
    /\ Len(last.events) = 2
    /\ fanActive = ACTIVE
    /\ fanRotationSpeed = 60
    /\ FanGetActiveValue(fanDevice) = ACTIVE
    /\ FanGetRotationSpeedValue(fanDevice) = 60

\* C20: the fan's published RotationSpeed is one of 0, 20, 40, 60, 80, 100, and
\* whenever its published Active is ACTIVE its published RotationSpeed is above 0.
C20_ActiveHasSpeed ==
    "fan" \in registered =>
        /\ fanRotationSpeed \in CanonicalPercentages
        /\ fanActive = ACTIVE => fanRotationSpeed > 0

====
